---- MODULE Spec2Model ----
(***************************************************************************)
(* Model of the final-assembly pipeline of RedditVideoMakerBot             *)
(* (video_creation/final_video.py): the overlay timeline built from the    *)
(* audio clips, the ProgressFfmpeg polling thread, and render_video as     *)
(* driven by make_final_video.                                             *)
(*                                                                         *)
(* Five state machines share the variables:                                *)
(*   TimelineSpec  gather_audio_clips, get_audio_clips_durations and       *)
(*                 overlay_images_on_background applied to every input     *)
(*   MonitorSpec   one ProgressFfmpeg thread fed by a synthetic channel    *)
(*   Spec          make_final_video's render phase: render_video, the      *)
(*                 encoder process and the monitor threads                 *)
(*   BuildSpec     make_final_video from its start to the running main     *)
(*                 encoder and its monitor thread, over jobs with a        *)
(*                 missing asset                                           *)
(*   RotatorSpec   elevenLabsKeyRotator.py, one APIKeyRotator().run() per  *)
(*                 process, with the clock advancing between runs          *)
(*                                                                         *)
(* Durations are whole time units, out_time_ms values are microseconds,    *)
(* the progress bar counts 1/Scale of a percent.  The floats of the        *)
(* progress computation are doubles, kept as a significand of at most      *)
(* MANTISSA binary digits (most significant first, leading digit 1, the    *)
(* empty sequence for 0.0) and the exponent of its last digit.             *)
(***************************************************************************)
EXTENDS Integers, Sequences, FiniteSets

\* ---- bounds ----
MaxClips == 2
MaxDur == 2
MaxLines == 3
MaxTicks == 2
MaxLength == 2
MaxStops == 2
MaxEncoderLines == 2
MaxMissing == 1
MaxRuns == 31
MaxDays == 31

\* ---- program constants ----
\* float(out_time_ms_str) / 1000000.0
MICRO == 1000000
\* tqdm(total=100) and pbar.update(100 - old_percentage)
FULL == 100
\* round(progress * 100, 2)
PERCENT == 100
DECIMALS == 2
\* float: the significand of an IEEE 754 double
MANTISSA == 53
Scale == 10 ^ DECIMALS
\* if self.execution_count % 10 == 0
ROTATE_EVERY == 10
\* info['uses'] < 10 and ['uses'] >= 10
USE_LIMIT == 10
\* timedelta(days=30)
REACTIVATE_DAYS == 30

VARIABLES
    storymode, storymodemethod, storymodemethod_cap_cut, number_of_clips,
    durs, tpc, audio_clips, audio_clips_durations, windows, assets,
    length, enable_extra_audio, background_audio_volume,
    pc, cur, old_percentage, pbar, mon, file, callbacks, encoder, encodes,
    returned, saved, rendered_audio, cleaned,
    api_keys, execution_count, config_key, now, last_run

timelineVars == <<storymode, storymodemethod, storymodemethod_cap_cut,
                  number_of_clips, durs, tpc, audio_clips,
                  audio_clips_durations, windows, assets>>
settingVars == <<length, enable_extra_audio, background_audio_volume>>
coordVars == <<pc, cur, old_percentage, encoder, encodes, returned, saved,
               rendered_audio, cleaned>>
renderVars == <<settingVars, coordVars, pbar, mon, file, callbacks>>
rotatorVars == <<api_keys, execution_count, config_key, now, last_run>>
vars == <<timelineVars, renderVars, rotatorVars>>

None == -1

RECURSIVE Sum(_)
Sum(s) == IF s = <<>> THEN 0 ELSE Head(s) + Sum(Tail(s))

\* list.insert(idx, x) of Python, idx counted from 0 and clamped to the length
Insert(s, idx, x) ==
    LET k == IF idx > Len(s) THEN Len(s) ELSE idx
    IN  SubSeq(s, 1, k) \o <<x>> \o SubSeq(s, k + 1, Len(s))

(***************************************************************************)
(* APIKeyRotator: the persisted files and config.toml.                     *)
(***************************************************************************)
\* self.api_keys in dictionary order
Keys == <<"sk_yourElevenLabsKey", "sk_otherElevenLabsKey">>
KeySet == {Keys[i] : i \in 1..Len(Keys)}

\* api_keys.json and execution_count.txt as initialize_storage creates them
DefaultStorage == [k \in KeySet |-> [uses |-> 0, retired_date |-> None]]

\* no rotator process has run and none will
RotatorIdle ==
    /\ api_keys = DefaultStorage
    /\ execution_count = 0
    /\ config_key = ""
    /\ now = 0
    /\ last_run = "none"

\* get_active_api_key found nothing and raised
NoKey == ""

\* first loop of get_active_api_key: a key retired for 30 days or more is
\* put back with a use count of 0
reactivate(keys, current_time) ==
    [k \in KeySet |->
        IF keys[k].retired_date # None
             /\ current_time - keys[k].retired_date >= REACTIVATE_DAYS
        THEN [uses |-> 0, retired_date |-> None]
        ELSE keys[k]]

\* info['retired_date'] is None and info['uses'] < 10
available(info) == info.retired_date = None /\ info.uses < USE_LIMIT

first_listed(keys) == Keys[1]

\* second loop of get_active_api_key: the first available key in dictionary
\* order, or the exception when the loop runs out
first_available(keys) ==
    LET idx == {i \in 1..Len(Keys) : available(keys[Keys[i]])}
    IN  IF idx = {} THEN NoKey
        ELSE Keys[CHOOSE i \in idx : \A j \in idx : i <= j]

\* the dictionary as the call leaves it, and the key returned
get_active_api_key(keys, current_time) ==
    LET reactivated == reactivate(keys, current_time)
    IN  [api_keys |-> reactivated, key |-> first_available(reactivated)]

\* run() in memory, up to the two saves: the incremented count, the use
\* counted for the configured key, and on every 10th execution the
\* retirement of a used-up key and the choice of the next one
run_steps(keys, count, cfg, t) ==
    LET counted == count + 1
        used == IF cfg \in KeySet
                THEN [keys EXCEPT ![cfg].uses = @ + 1]
                ELSE keys
        rotate == counted % ROTATE_EVERY = 0
        retired == IF cfg \in KeySet /\ used[cfg].uses >= USE_LIMIT
                   THEN [used EXCEPT ![cfg].retired_date = t]
                   ELSE used
        got == get_active_api_key(retired, t)
    IN  [execution_count |-> counted,
         used |-> used,
         rotate |-> rotate,
         api_keys |-> IF rotate THEN got.api_keys ELSE used,
         new_key |-> IF rotate THEN got.key ELSE cfg]

run_count_saved_first(keys, count, cfg, t) ==
    LET m == run_steps(keys, count, cfg, t)
    IN  IF m.rotate /\ m.new_key = NoKey
        THEN [api_keys |-> keys, execution_count |-> m.execution_count,
              config_key |-> cfg, outcome |-> "failed"]
        ELSE [api_keys |-> m.api_keys, execution_count |-> m.execution_count,
              config_key |-> m.new_key,
              outcome |-> IF m.rotate THEN "rotated" ELSE "plain"]

\* APIKeyRotator().run() as one process: the files and config.toml it leaves.
\* The exception of get_active_api_key ends the process before
\* update_config and both saves, so the files stay as they were loaded.
run(keys, count, cfg, t) ==
    LET m == run_steps(keys, count, cfg, t)
    IN  IF m.rotate /\ m.new_key = NoKey
        THEN [api_keys |-> keys, execution_count |-> count,
              config_key |-> cfg, outcome |-> "failed"]
        ELSE [api_keys |-> m.api_keys, execution_count |-> m.execution_count,
              config_key |-> m.new_key,
              outcome |-> IF m.rotate THEN "rotated" ELSE "plain"]

\* python elevenLabsKeyRotator.py
RotatorRun ==
    /\ execution_count < MaxRuns
    /\ LET r == run(api_keys, execution_count, config_key, now)
       IN  /\ api_keys' = r.api_keys
           /\ execution_count' = r.execution_count
           /\ config_key' = r.config_key
           /\ last_run' = r.outcome
    /\ UNCHANGED now
    /\ UNCHANGED <<timelineVars, renderVars>>

\* datetime.now() moves on between two processes, by a day or by 30
AdvanceClock ==
    /\ \E d \in {1, REACTIVATE_DAYS} :
           /\ now + d <= MaxDays
           /\ now' = now + d
    /\ UNCHANGED <<api_keys, execution_count, config_key, last_run>>
    /\ UNCHANGED <<timelineVars, renderVars>>

RotatorNext ==
    \/ RotatorRun
    \/ AdvanceClock

(***************************************************************************)
(* Timeline: the assets of one job and the three functions over them.      *)
(***************************************************************************)

\* assets/temp/<id>/mp3/<name>.mp3 and assets/temp/<id>/png/<name>.png
Mp3(name, i) == <<"mp3", name, i>>
Png(name, i) == <<"png", name, i>>

\* files of the job that earlier stages leave behind and that may be absent
Background == <<"mp4", "background", 0>>
BackgroundAudio == Mp3("background", 0)
TitleTemplate == Png("title_template", 0)
InputAssets ==
    {Background, BackgroundAudio, TitleTemplate, Mp3("title", 0),
     Mp3("postaudio", 0), Png("story_content", 0)}
        \cup {Mp3("postaudio-", i) : i \in 0..MaxClips}
        \cup {Mp3("", i) : i \in 0..MaxClips}
        \cup {Png("img", i) : i \in 0..MaxClips}
        \cup {Png("comment_", i) : i \in 0..MaxClips}

\* files make_final_video writes itself
BackgroundNoAudio == <<"mp4", "background_noaudio", 0>>
FinalAudio == Mp3("audio", 0)

\* duration ffmpeg.probe reports for an mp3: durs[0] is title.mp3, durs[k+1]
\* the k-th body file of the job (postaudio.mp3 is the only body file of
\* story method 0)
probe(f) == IF f[2] = "title" THEN durs[0] ELSE durs[f[3] + 1]

gather_flat_title_last(N) ==
    [i \in 1..N |-> Mp3("", i - 1)] \o <<Mp3("title", 0)>>

gather_flat(N) ==
    Insert([i \in 1..N |-> Mp3("", i - 1)], 0, Mp3("title", 0))

gather_audio_clips(N) ==
    IF storymode
    THEN IF storymodemethod = 0
         THEN Insert(<<Mp3("title", 0)>>, 1, Mp3("postaudio", 0))
         ELSE IF storymodemethod = 1
         THEN Insert([i \in 1..(N + 1) |-> Mp3("postaudio-", i - 1)], 0,
                     Mp3("title", 0))
         ELSE <<>>
    ELSE gather_flat(N)

get_audio_clips_durations(N) ==
    IF storymode
    THEN IF storymodemethod = 0
         THEN <<probe(Mp3("title", 0)), probe(Mp3("postaudio", 0))>>
         ELSE IF storymodemethod = 1
         THEN Insert([i \in 1..(N + 1) |-> probe(Mp3("postaudio-", i - 1))], 0,
                     probe(Mp3("title", 0)))
         ELSE <<>>
    ELSE Insert([i \in 1..N |-> probe(Mp3("", i - 1))], 0,
                probe(Mp3("title", 0)))

\* One background_clip.overlay(image, enable="between(t,start,end)") node.
Overlay(image, start, end) == [image |-> image, start |-> start, end |-> end]

\* The body of each of the four loops: iteration i (from 0) appends the
\* image file `name`i to image_clips, overlays image_clips[i] for the
\* duration audio_clips_durations[i] and advances current_time.
\* st = [image_clips, overlays, current_time]
LoopBody(st, i, name, durations) ==
    LET clips == Append(st.image_clips, Png(name, i))
    IN  [image_clips |-> clips,
         overlays |-> Append(st.overlays,
                             Overlay(clips[i + 1], st.current_time,
                                     st.current_time + durations[i + 1])),
         current_time |-> st.current_time + durations[i + 1]]

RECURSIVE Loop(_, _, _, _, _)
Loop(st, i, n, name, durations) ==
    IF i >= n THEN st
    ELSE Loop(LoopBody(st, i, name, durations), i + 1, n, name, durations)

\* Story method 0: story_content.png inserted at 1, then range(2) without
\* any append.
RECURSIVE LoopPair(_, _, _)
LoopPair(st, i, durations) ==
    IF i >= 2 THEN st
    ELSE LoopPair([image_clips |-> st.image_clips,
                   overlays |-> Append(st.overlays,
                                       Overlay(st.image_clips[i + 1],
                                               st.current_time,
                                               st.current_time + durations[i + 1])),
                   current_time |-> st.current_time + durations[i + 1]],
                  i + 1, durations)

\* Returns the overlay nodes stacked on background_clip, in creation order.
overlay_images_on_background(image_clips, durations, N) ==
    LET st0 == [image_clips |-> image_clips, overlays |-> <<>>,
                current_time |-> 0]
    IN  IF storymode
        THEN IF storymodemethod = 0
             THEN LoopPair([st0 EXCEPT !.image_clips =
                               Insert(image_clips, 1, Png("story_content", 0))],
                           0, durations).overlays
             ELSE IF storymodemethod = 1
             THEN IF storymodemethod_cap_cut = FALSE
                  THEN Loop(st0, 0, N + 1, "img", durations).overlays
                  ELSE Loop(st0, 0, N + 1, "trs", durations).overlays
             ELSE <<>>
        ELSE Loop(st0, 0, N + 1, "comment_", durations).overlays

\* ffmpeg's between(t, lo, hi): 1 iff lo <= t <= hi
between(t, lo, hi) == lo <= t /\ t <= hi

OverlayEnabled(w, t) == between(t, w.start, w.end)

\* settings.config values of one job, the probed files, and nothing built yet
Modes ==
    [storymode : BOOLEAN, storymodemethod : {0, 1},
     storymodemethod_cap_cut : BOOLEAN]

TimelineIdle ==
    /\ tpc = "off"
    /\ storymode = FALSE /\ storymodemethod = 0
    /\ storymodemethod_cap_cut = FALSE
    /\ number_of_clips = 0
    /\ durs = [k \in 0..(MaxClips + 1) |-> 0]
    /\ audio_clips = <<>> /\ audio_clips_durations = <<>> /\ windows = <<>>
    /\ assets = InputAssets

\* storymode == "false": a bool setting never equals the string
is_str_false(x) == x \notin BOOLEAN /\ x = "false"

\* make_final_video, line 188: prepare_background runs ffmpeg on
\* background.mp4 and leaves through exit(1) when that fails
PrepareBackground ==
    /\ tpc = "prepare"
    /\ IF Background \in assets
       THEN /\ assets' = assets \cup {BackgroundNoAudio}
            /\ tpc' = "gather"
       ELSE /\ assets' = assets
            /\ tpc' = "failed"
    /\ UNCHANGED <<storymode, storymodemethod, storymodemethod_cap_cut,
                   number_of_clips, durs, audio_clips, audio_clips_durations,
                   windows>>
    /\ UNCHANGED <<renderVars, rotatorVars>>

\* make_final_video, line 191; gather_audio_clips leaves through exit() on
\* its guard
GatherAudioClips ==
    /\ tpc = "gather"
    /\ IF number_of_clips = 0 /\ is_str_false(storymode)
       THEN /\ audio_clips' = audio_clips
            /\ tpc' = "failed"
       ELSE /\ audio_clips' = gather_audio_clips(number_of_clips)
            /\ tpc' = "concat"
    /\ UNCHANGED <<storymode, storymodemethod, storymodemethod_cap_cut,
                   number_of_clips, durs, audio_clips_durations, windows,
                   assets>>
    /\ UNCHANGED <<renderVars, rotatorVars>>

\* make_final_video, line 195: ffmpeg concatenates the clips into audio.mp3
\* and raises ffmpeg.Error when an input cannot be opened
ConcatenateAudioClips ==
    /\ tpc = "concat"
    /\ IF \A i \in 1..Len(audio_clips) : audio_clips[i] \in assets
       THEN /\ assets' = assets \cup {FinalAudio}
            /\ tpc' = "title"
       ELSE /\ assets' = assets
            /\ tpc' = "failed"
    /\ UNCHANGED <<storymode, storymodemethod, storymodemethod_cap_cut,
                   number_of_clips, durs, audio_clips, audio_clips_durations,
                   windows>>
    /\ UNCHANGED <<renderVars, rotatorVars>>

\* make_final_video, line 205: create_title_image opens the template and
\* saves png/title.png
CreateTitleImage ==
    /\ tpc = "title"
    /\ IF TitleTemplate \in assets
       THEN /\ assets' = assets \cup {Png("title", 0)}
            /\ tpc' = "durations"
       ELSE /\ assets' = assets
            /\ tpc' = "failed"
    /\ UNCHANGED <<storymode, storymodemethod, storymodemethod_cap_cut,
                   number_of_clips, durs, audio_clips, audio_clips_durations,
                   windows>>
    /\ UNCHANGED <<renderVars, rotatorVars>>

\* make_final_video, line 212
GetAudioClipsDurations ==
    /\ tpc = "durations"
    /\ audio_clips_durations' = get_audio_clips_durations(number_of_clips)
    /\ tpc' = "overlay"
    /\ UNCHANGED <<storymode, storymodemethod, storymodemethod_cap_cut,
                   number_of_clips, durs, audio_clips, windows, assets>>
    /\ UNCHANGED <<renderVars, rotatorVars>>

\* the transparent trs<i>.png files the blank variant saves in its loop
SavedPlaceholders(N) ==
    IF storymode /\ storymodemethod = 1 /\ storymodemethod_cap_cut # FALSE
    THEN {Png("trs", i) : i \in 0..N}
    ELSE {}

\* make_final_video, lines 209 and 215: image_clips starts as [title.png]
OverlayImagesOnBackground ==
    /\ tpc = "overlay"
    /\ windows' = overlay_images_on_background(<<Png("title", 0)>>,
                                               audio_clips_durations,
                                               number_of_clips)
    /\ assets' = assets \cup SavedPlaceholders(number_of_clips)
    /\ tpc' = "built"
    /\ UNCHANGED <<storymode, storymodemethod, storymodemethod_cap_cut,
                   number_of_clips, durs, audio_clips, audio_clips_durations>>
    /\ UNCHANGED <<renderVars, rotatorVars>>

TimelineNext ==
    \/ GatherAudioClips
    \/ ConcatenateAudioClips
    \/ CreateTitleImage
    \/ GetAudioClipsDurations
    \/ OverlayImagesOnBackground

(***************************************************************************)
(* ProgressFfmpeg: the polling thread and its channel.                     *)
(***************************************************************************)
Variants == {"main", "tts"}

\* audio streams handed to render_video: the node and the files it reads
NoAudio == [node |-> "none", files |-> {}]
\* audio = ffmpeg.input(final_audio_path)
audio == [node |-> "input", files |-> {FinalAudio}]

\* merge_background_audio(audio, reddit_id)
merge_background_audio(a) ==
    IF background_audio_volume = 0
    THEN a
    ELSE [node |-> "amix", files |-> a.files \cup {BackgroundAudio}]

\* a whole line "key=val" of the -progress file
Line(key, val) == [key |-> key, val |-> val]
\* the encoder reports half seconds; -1 is a negative timestamp, which ffmpeg
\* prints before the first frame
OutTimes == {-1} \cup {k * (MICRO \div 2) : k \in 1..MaxTicks}
LineSet ==
    {Line("out_time_ms", v) : v \in OutTimes}
        \cup {Line("out_time_us", MICRO \div 2)}

\* "out_time_ms" in line
HasOutTimeAny(line) == line.key \in {"out_time_ms", "out_time_us"}

HasOutTimeMs(line) == line.key = "out_time_ms"

\* str.isnumeric() of the text after "=": digits only, so no sign
isnumeric(val) == val >= 0

\* Returns the microseconds whose float division by 1000000.0 the code
\* returns, or None.
RECURSIVE get_latest_ms_progress(_)
get_latest_ms_progress(lines) ==
    IF lines = <<>> THEN None
    ELSE IF HasOutTimeMs(Head(lines))
         THEN IF isnumeric(Head(lines).val) THEN Head(lines).val ELSE None
         ELSE get_latest_ms_progress(Tail(lines))

\* the value of e handed to F: e is computed once, however often F uses it
Bind(e, F(_)) == CHOOSE out \in {F(x) : x \in {e}} : TRUE

\* the binary digits of n >= 0
RECURSIVE bits_of(_)
bits_of(n) == IF n = 0 THEN <<>> ELSE Append(bits_of(n \div 2), n % 2)

\* the integer the first n digits of a sequence spell
RECURSIVE to_int_upto(_, _)
to_int_upto(bits, n) ==
    IF n = 0 THEN 0 ELSE 2 * to_int_upto(bits, n - 1) + bits[n]

\* the integer a digit sequence spells
to_int(bits) == Bind(bits, LAMBDA b : to_int_upto(b, Len(b)))

\* float(n) for an integer 0 <= n < 2^MANTISSA: exact
from_int(n) == [bits |-> bits_of(n), exp |-> 0]

\* the digits of a sequence in the opposite order
Reverse(bits) ==
    Bind(bits, LAMBDA b : SubSeq([i \in 1..Len(b) |-> b[Len(b) + 1 - i]],
                                 1, Len(b)))

AnySet(bits) == \E i \in 1..Len(bits) : bits[i] = 1

\* bits + 1: the last 0 becomes 1 and the digits after it 0
incr(bits) ==
    Bind(bits, LAMBDA b :
        IF \A i \in 1..Len(b) : b[i] = 1
        THEN <<1>> \o SubSeq([i \in 1..Len(b) |-> 0], 1, Len(b))
        ELSE Bind(CHOOSE i \in 1..Len(b) :
                      /\ b[i] = 0
                      /\ \A k \in (i + 1)..Len(b) : b[k] = 1,
                  LAMBDA j :
                      SubSeq([i \in 1..Len(b) |->
                                 IF i < j THEN b[i]
                                 ELSE IF i = j THEN 1 ELSE 0],
                             1, Len(b))))

\* the double nearest to bits * 2^exp (plus less than one unit of the last
\* digit when sticky), ties to the even significand
round_to(bits, exp, sticky) ==
    Bind(bits, LAMBDA b :
        IF Len(b) <= MANTISSA THEN [bits |-> b, exp |-> exp]
        ELSE Bind(SubSeq(b, 1, MANTISSA), LAMBDA keep :
             LET guard == b[MANTISSA + 1]
                 rest == sticky \/ AnySet(SubSeq(b, MANTISSA + 2, Len(b)))
                 e == exp + Len(b) - MANTISSA
             IN  IF guard = 1 /\ (rest \/ keep[MANTISSA] = 1)
                 THEN Bind(incr(keep), LAMBDA up :
                          IF Len(up) > MANTISSA
                          THEN [bits |-> SubSeq(up, 1, MANTISSA),
                                exp |-> e + 1]
                          ELSE [bits |-> up, exp |-> e])
                 ELSE [bits |-> keep, exp |-> e]))

\* long division of the digits lo..hi by the integer d > 0, entered with
\* remainder r: one quotient digit per digit, and the remainder left
RECURSIVE divide_digits(_, _, _, _, _)
divide_digits(bits, d, lo, hi, r) ==
    IF lo = hi
    THEN Bind(2 * r + bits[lo], LAMBDA r2 :
             IF r2 >= d THEN [q |-> <<1>>, r |-> r2 - d]
             ELSE [q |-> <<0>>, r |-> r2])
    ELSE Bind((lo + hi) \div 2, LAMBDA mid :
         Bind(divide_digits(bits, d, lo, mid, r), LAMBDA left :
         Bind(divide_digits(bits, d, mid + 1, hi, left.r), LAMBDA right :
             [q |-> left.q \o right.q, r |-> right.r])))

\* x / d in double arithmetic, d an integer (or a float holding one): the
\* division is carried far enough past the last digit for the quotient to
\* have more digits than a double holds, then rounded
fl_div(x, d) ==
    Bind(x, LAMBDA xv :
        IF xv.bits = <<>> THEN xv
        ELSE Bind(MANTISSA + 1 + Len(bits_of(d)), LAMBDA pad :
             Bind(xv.bits \o SubSeq([i \in 1..pad |-> 0], 1, pad),
                  LAMBDA padded :
             Bind(divide_digits(padded, d, 1, Len(padded), 0), LAMBDA res :
             Bind(CHOOSE i \in 1..Len(res.q) :
                      /\ res.q[i] = 1
                      /\ \A k \in 1..(i - 1) : res.q[k] = 0,
                  LAMBDA lead :
                      round_to(SubSeq(res.q, lead, Len(res.q)),
                               xv.exp - pad, res.r # 0))))))

\* the digits lo..hi, least significant first, times the integer c >= 1,
\* entered with a carry: one product digit per digit, and the carry left
RECURSIVE mul_digits(_, _, _, _, _)
mul_digits(rev, c, lo, hi, carry) ==
    IF lo = hi
    THEN Bind(rev[lo] * c + carry, LAMBDA t :
             [out |-> <<t % 2>>, carry |-> t \div 2])
    ELSE Bind((lo + hi) \div 2, LAMBDA mid :
         Bind(mul_digits(rev, c, lo, mid, carry), LAMBDA low :
         Bind(mul_digits(rev, c, mid + 1, hi, low.carry), LAMBDA high :
             [out |-> low.out \o high.out, carry |-> high.carry])))

\* the digits of bits * c
mul_bits(bits, c) ==
    Bind(bits, LAMBDA b :
        IF b = <<>> THEN <<>>
        ELSE Bind(Reverse(b), LAMBDA rev :
             Bind(mul_digits(rev, c, 1, Len(rev), 0), LAMBDA m :
                 bits_of(m.carry) \o Reverse(m.out))))

\* x * c in double arithmetic, c an integer >= 1
fl_mul(x, c) ==
    Bind(x, LAMBDA xv : round_to(mul_bits(xv.bits, c), xv.exp, FALSE))

\* the integer nearest to the double x >= 0, ties to even
round_int(x) ==
    Bind(x, LAMBDA xv :
        IF xv.exp >= 0 THEN to_int(xv.bits) * 2 ^ xv.exp
        ELSE IF -xv.exp > Len(xv.bits) THEN 0
        ELSE Bind(Len(xv.bits) + xv.exp, LAMBDA cut :
             Bind(to_int(SubSeq(xv.bits, 1, cut)), LAMBDA n :
                 IF /\ xv.bits[cut + 1] = 1
                    /\ \/ AnySet(SubSeq(xv.bits, cut + 2, Len(xv.bits)))
                       \/ n % 2 = 1
                 THEN n + 1 ELSE n)))

\* round(x, ndigits) of a float x >= 0, in units of 10^-ndigits: the
\* decimal nearest to the exact value of the double, ties to even
Round(x, ndigits) ==
    Bind(x, LAMBDA xv :
        round_int([bits |-> mul_bits(xv.bits, 10 ^ ndigits),
                   exp |-> xv.exp]))

\* latest_progress / self.vid_duration_seconds: the float quotient is
\* determined by the microseconds read and the integer duration, kept here
\* as the exact fraction num / den and made a double by float_of
completed_percent(latest, vid_duration_seconds) ==
    [num |-> latest, den |-> MICRO * vid_duration_seconds]

\* float(out_time_ms_str) / 1000000.0 / self.vid_duration_seconds
float_of(progress) ==
    fl_div(fl_div(from_int(progress.num), MICRO), progress.den \div MICRO)

\* round(progress * 100, 2), in 1/Scale of a percent
status(progress) == Round(fl_mul(float_of(progress), PERCENT), DECIMALS)

\* tqdm: update(d) adds d to n unless the bar is disabled; close() disables
tqdm_new == [n |-> 0, disable |-> FALSE]
tqdm_update(bar, d) == IF bar.disable THEN bar ELSE [bar EXCEPT !.n = @ + d]
tqdm_close(bar) == [bar EXCEPT !.disable = TRUE]

\* a thread object that was never constructed
MonIdle ==
    [pc |-> "idle", stop_event |-> FALSE, pos |-> 0, latest |-> None,
     batch |-> <<>>, old_percentage |-> 0, polls_after_stop |-> 0,
     stop_calls |-> 0]

\* ProgressFfmpeg.__init__ followed by start()
MonStarted == [MonIdle EXCEPT !.pc = "check"]

stop_noop(m) == m

stop(m) == [m EXCEPT !.stop_event = TRUE]

Alive(v) == mon[v].pc \notin {"idle", "done"}

\* while not self.stop_event.is_set()
MonCheck(v) ==
    /\ mon[v].pc = "check"
    /\ mon' = [mon EXCEPT ![v].pc =
                  IF mon[v].stop_event THEN "done" ELSE "poll"]
    /\ UNCHANGED <<settingVars, coordVars, pbar, file, callbacks>>
    /\ UNCHANGED <<timelineVars, rotatorVars>>

\* latest_progress = self.get_latest_ms_progress(): readlines() takes the
\* lines appended since the previous read
MonPoll(v) ==
    /\ mon[v].pc = "poll"
    /\ LET lines == SubSeq(file[v], mon[v].pos + 1, Len(file[v]))
           ret == get_latest_ms_progress(lines)
       IN  mon' = [mon EXCEPT
                      ![v].pos = Len(file[v]),
                      ![v].batch = lines,
                      ![v].latest = ret,
                      ![v].polls_after_stop =
                          IF mon[v].stop_calls > 0 THEN @ + 1 ELSE @,
                      ![v].pc = IF ret # None THEN "callback" ELSE "sleep"]
    /\ UNCHANGED <<settingVars, coordVars, pbar, file, callbacks>>
    /\ UNCHANGED <<timelineVars, rotatorVars>>

\* self.progress_update_callback(completed_percent) up to on_update_example's
\* read of pbar.n
MonCallback(v) ==
    /\ mon[v].pc = "callback"
    /\ callbacks' = [callbacks EXCEPT ![v] =
                        Append(@, completed_percent(mon[v].latest, length))]
    /\ mon' = [mon EXCEPT ![v].old_percentage = pbar[v].n,
                          ![v].batch = <<>>,
                          ![v].pc = "cb_update"]
    /\ UNCHANGED <<settingVars, coordVars, pbar, file>>
    /\ UNCHANGED <<timelineVars, rotatorVars>>

\* pbar.update(status - old_percentage)
MonCbUpdate(v) ==
    /\ mon[v].pc = "cb_update"
    /\ pbar' = [pbar EXCEPT ![v] =
                   tqdm_update(@, status(completed_percent(mon[v].latest, length))
                                      - mon[v].old_percentage)]
    /\ mon' = [mon EXCEPT ![v].old_percentage = 0, ![v].pc = "sleep"]
    /\ UNCHANGED <<settingVars, coordVars, file, callbacks>>
    /\ UNCHANGED <<timelineVars, rotatorVars>>

\* time.sleep(1) returns
MonSleep(v) ==
    /\ mon[v].pc = "sleep"
    /\ mon' = [mon EXCEPT ![v].batch = <<>>, ![v].latest = None,
                          ![v].pc = "check"]
    /\ UNCHANGED <<settingVars, coordVars, pbar, file, callbacks>>
    /\ UNCHANGED <<timelineVars, rotatorVars>>

\* ProgressFfmpeg.run, one step of thread v
MonitorStep(v) ==
    \/ MonCheck(v)
    \/ MonPoll(v)
    \/ MonCallback(v)
    \/ MonCbUpdate(v)
    \/ MonSleep(v)

RenderIdle ==
    /\ pc = "off" /\ cur = "main" /\ old_percentage = 0
    /\ length = 1 /\ enable_extra_audio = FALSE /\ background_audio_volume = 0
    /\ pbar = [v \in Variants |-> tqdm_new]
    /\ mon = [v \in Variants |-> MonIdle]
    /\ file = [v \in Variants |-> <<>>]
    /\ callbacks = [v \in Variants |-> <<>>]
    /\ encoder = [v \in Variants |-> "none"]
    /\ encodes = [v \in Variants |-> 0]
    /\ returned = "" /\ saved = FALSE
    /\ rendered_audio = [v \in Variants |-> NoAudio] /\ cleaned = FALSE

(***************************************************************************)
(* MonitorSpec: one ProgressFfmpeg with on_update_example as its callback, *)
(* started, fed whole lines and stopped by its owner.                      *)
(***************************************************************************)
MonitorInit ==
    /\ TimelineIdle
    /\ RotatorIdle
    /\ pc = "harness" /\ cur = "main" /\ old_percentage = 0
    /\ length \in 1..MaxLength
    /\ enable_extra_audio = FALSE /\ background_audio_volume = 0
    /\ pbar = [v \in Variants |-> tqdm_new]
    /\ mon = [v \in Variants |-> MonIdle]
    /\ file = [v \in Variants |-> <<>>]
    /\ callbacks = [v \in Variants |-> <<>>]
    /\ encoder = [v \in Variants |-> "none"]
    /\ encodes = [v \in Variants |-> 0]
    /\ returned = "" /\ saved = FALSE
    /\ rendered_audio = [v \in Variants |-> NoAudio] /\ cleaned = FALSE

\* __enter__
MonitorStart ==
    /\ pc = "harness"
    /\ mon["main"].pc = "idle"
    /\ mon' = [mon EXCEPT !["main"] = MonStarted]
    /\ UNCHANGED <<settingVars, coordVars, pbar, file, callbacks>>
    /\ UNCHANGED <<timelineVars, rotatorVars>>

\* the writer of the channel appends one whole line
ChannelAppend ==
    /\ pc = "harness"
    /\ Len(file["main"]) < MaxLines
    /\ \E line \in LineSet :
           file' = [file EXCEPT !["main"] = Append(@, line)]
    /\ UNCHANGED <<settingVars, coordVars, pbar, mon, callbacks>>
    /\ UNCHANGED <<timelineVars, rotatorVars>>

\* stop(), called by whoever holds the started thread
StopCall ==
    /\ pc = "harness"
    /\ mon["main"].pc # "idle"
    /\ mon["main"].stop_calls < MaxStops
    /\ mon' = [mon EXCEPT !["main"] =
                  [stop(@) EXCEPT !.stop_calls = @ + 1]]
    /\ UNCHANGED <<settingVars, coordVars, pbar, file, callbacks>>
    /\ UNCHANGED <<timelineVars, rotatorVars>>

MonitorNext ==
    \/ MonitorStart
    \/ ChannelAppend
    \/ StopCall
    \/ MonitorStep("main")

(***************************************************************************)
(* Spec: make_final_video from its first render_video call on.             *)
(***************************************************************************)
allow_only_tts_any_volume == enable_extra_audio

\* initial_setup: allow_only_tts_folder
allow_only_tts_folder == enable_extra_audio /\ background_audio_volume # 0

Init ==
    /\ TimelineIdle
    /\ RotatorIdle
    /\ pc = "render_main" /\ cur = "main" /\ old_percentage = 0
    /\ length \in 1..MaxLength
    /\ enable_extra_audio \in BOOLEAN
    /\ background_audio_volume \in {0, 1}
    /\ pbar = [v \in Variants |-> tqdm_new]
    /\ mon = [v \in Variants |-> MonIdle]
    /\ file = [v \in Variants |-> <<>>]
    /\ callbacks = [v \in Variants |-> <<>>]
    /\ encoder = [v \in Variants |-> "none"]
    /\ encodes = [v \in Variants |-> 0]
    /\ returned = "" /\ saved = FALSE
    /\ rendered_audio = [v \in Variants |-> NoAudio] /\ cleaned = FALSE

\* render_video up to the body of the with block: the bar, the monitor
\* with its fresh temporary file, and __enter__, which starts the thread
RenderVideoEnter(v) ==
    /\ pc = IF v = "main" THEN "render_main" ELSE "render_tts"
    /\ cur' = v
    /\ pbar' = [pbar EXCEPT ![v] = tqdm_new]
    /\ mon' = [mon EXCEPT ![v] = MonStarted]
    /\ file' = [file EXCEPT ![v] = <<>>]
    /\ pc' = "spawning"
    /\ UNCHANGED <<settingVars, old_percentage, encoder, encodes,
                   callbacks, returned, saved, rendered_audio, cleaned>>
    /\ UNCHANGED <<timelineVars, rotatorVars>>

\* ffmpeg.output(...).overwrite_output().global_args(...).run(): the encoder
\* process is spawned on the streams render_video was given, while the
\* monitor thread is already running
EncoderSpawn(v) ==
    /\ pc = "spawning"
    /\ cur = v
    /\ encoder' = [encoder EXCEPT ![v] = "running"]
    /\ encodes' = [encodes EXCEPT ![v] = @ + 1]
    /\ rendered_audio' = [rendered_audio EXCEPT ![v] =
                              IF v = "main" THEN merge_background_audio(audio)
                              ELSE audio]
    /\ pc' = "encoding"
    /\ UNCHANGED <<settingVars, cur, old_percentage, pbar, mon, file,
                   callbacks, returned, saved, cleaned>>
    /\ UNCHANGED <<timelineVars, rotatorVars>>

\* the encoder process appends one whole line to its -progress file
EncoderAppend(v) ==
    /\ encoder[v] = "running"
    /\ Len(file["main"]) + Len(file["tts"]) < MaxEncoderLines
    /\ \E line \in LineSet : file' = [file EXCEPT ![v] = Append(@, line)]
    /\ UNCHANGED <<settingVars, coordVars, pbar, mon, callbacks>>
    /\ UNCHANGED <<timelineVars, rotatorVars>>

\* the encoder process exits, with status 0 or not
EncoderExit(v) ==
    /\ encoder[v] = "running"
    /\ \E rc \in {0, 1} :
           encoder' = [encoder EXCEPT ![v] = IF rc = 0 THEN "ok" ELSE "failed"]
    /\ UNCHANGED <<settingVars, pc, cur, old_percentage, encodes, returned,
                   saved, rendered_audio,
                   cleaned, pbar, mon, file, callbacks>>
    /\ UNCHANGED <<timelineVars, rotatorVars>>

\* run() returned: the with block ends, __exit__ calls stop()
WithExit ==
    /\ pc = "encoding"
    /\ encoder[cur] = "ok"
    /\ mon' = [mon EXCEPT ![cur] = [stop(@) EXCEPT !.stop_calls = @ + 1]]
    /\ pc' = "final_read"
    /\ UNCHANGED <<settingVars, cur, old_percentage, encoder, encodes,
                   returned, saved, rendered_audio,
                   cleaned, pbar, file, callbacks>>
    /\ UNCHANGED <<timelineVars, rotatorVars>>

EncodeErrorIgnored ==
    /\ pc = "encoding"
    /\ encoder[cur] = "failed"
    /\ mon' = [mon EXCEPT ![cur] = [stop(@) EXCEPT !.stop_calls = @ + 1]]
    /\ pc' = "final_read"
    /\ UNCHANGED <<settingVars, cur, old_percentage, encoder, encodes,
                   returned, saved, rendered_audio,
                   cleaned, pbar, file, callbacks>>
    /\ UNCHANGED <<timelineVars, rotatorVars>>

\* run() raised ffmpeg.Error: the handler leaves through exit(1) (or through
\* the AttributeError of e.stderr.decode when no stderr was captured);
\* __exit__ calls stop() on the way out and make_final_video never resumes
EncodeErrorExit ==
    /\ pc = "encoding"
    /\ encoder[cur] = "failed"
    /\ mon' = [mon EXCEPT ![cur] = [stop(@) EXCEPT !.stop_calls = @ + 1]]
    /\ pc' = "aborted"
    /\ UNCHANGED <<settingVars, cur, old_percentage, encoder, encodes,
                   returned, saved, rendered_audio,
                   cleaned, pbar, file, callbacks>>
    /\ UNCHANGED <<timelineVars, rotatorVars>>

\* old_percentage = pbar.n
FinalRead ==
    /\ pc = "final_read"
    /\ old_percentage' = pbar[cur].n
    /\ pc' = "final_update"
    /\ UNCHANGED <<settingVars, cur, encoder, encodes, returned, saved, rendered_audio,
                   cleaned, pbar,
                   mon, file, callbacks>>
    /\ UNCHANGED <<timelineVars, rotatorVars>>

\* pbar.update(100 - old_percentage)
FinalUpdate ==
    /\ pc = "final_update"
    /\ pbar' = [pbar EXCEPT ![cur] =
                   tqdm_update(@, FULL * Scale - old_percentage)]
    /\ old_percentage' = 0
    /\ pc' = "final_close"
    /\ UNCHANGED <<settingVars, cur, encoder, encodes, returned, saved, rendered_audio,
                   cleaned, mon,
                   file, callbacks>>
    /\ UNCHANGED <<timelineVars, rotatorVars>>

\* pbar.close() and the return to make_final_video, which renders the
\* OnlyTTS variant next if allow_only_tts_folder
FinalClose ==
    /\ pc = "final_close"
    /\ pbar' = [pbar EXCEPT ![cur] = tqdm_close(@)]
    /\ pc' = IF cur = "main" /\ allow_only_tts_folder
             THEN "render_tts" ELSE "save"
    /\ UNCHANGED <<settingVars, cur, old_percentage, encoder, encodes,
                   returned, saved, rendered_audio,
                   cleaned, mon, file, callbacks>>
    /\ UNCHANGED <<timelineVars, rotatorVars>>

\* save_data, cleanup, return video_path
SaveAndReturn ==
    /\ pc = "save"
    /\ saved' = TRUE
    /\ cleaned' = TRUE
    /\ returned' = "video_path"
    /\ pc' = "done"
    /\ UNCHANGED <<settingVars, cur, old_percentage, encoder, encodes, pbar,
                   mon, file, callbacks, rendered_audio>>
    /\ UNCHANGED <<timelineVars, rotatorVars>>

Next ==
    \/ \E v \in Variants : RenderVideoEnter(v)
    \/ \E v \in Variants : EncoderSpawn(v)
    \/ \E v \in Variants : EncoderAppend(v)
    \/ \E v \in Variants : EncoderExit(v)
    \/ WithExit
    \/ EncodeErrorExit
    \/ FinalRead
    \/ FinalUpdate
    \/ FinalClose
    \/ SaveAndReturn
    \/ \E v \in Variants : MonitorStep(v)

Spec == Init /\ [][Next]_vars

MonitorSpec == MonitorInit /\ [][MonitorNext]_vars

\* the operating system schedules the started thread, and sleep(1) returns
FairMonitorSpec == MonitorSpec /\ WF_vars(MonitorStep("main"))

TimelineInit ==
    /\ RenderIdle
    /\ RotatorIdle
    /\ assets = InputAssets
    /\ tpc = "gather"
    /\ \E m \in Modes :
           /\ storymode = m.storymode
           /\ storymodemethod = m.storymodemethod
           /\ storymodemethod_cap_cut = m.storymodemethod_cap_cut
    /\ number_of_clips \in 0..MaxClips
    /\ durs \in [0..(MaxClips + 1) -> 0..MaxDur]
    /\ audio_clips = <<>> /\ audio_clips_durations = <<>> /\ windows = <<>>

TimelineSpec == TimelineInit /\ [][TimelineNext]_vars

(***************************************************************************)
(* RotatorSpec: default key storage, config.toml naming either key or a    *)
(* key the storage does not list.                                          *)
(***************************************************************************)
RotatorInit ==
    /\ TimelineIdle
    /\ RenderIdle
    /\ api_keys = DefaultStorage
    /\ execution_count = 0
    /\ config_key \in KeySet \cup {"sk_unlisted"}
    /\ now = 0
    /\ last_run = "none"

RotatorSpec == RotatorInit /\ [][RotatorNext]_vars

(***************************************************************************)
(* BuildSpec: make_final_video from its first line to the main encoder     *)
(* running and writing its progress file, with the monitor thread that     *)
(* __enter__ started running beside the coordinator, for jobs in which up  *)
(* to MaxMissing input files are absent.                                   *)
(***************************************************************************)
RECURSIVE MissingSets(_)
MissingSets(k) ==
    IF k = 0 THEN {{}}
    ELSE LET smaller == MissingSets(k - 1)
         IN  smaller \cup {m \cup {a} : m \in smaller, a \in InputAssets}

BuildInit ==
    /\ RotatorIdle
    /\ pc = "building" /\ cur = "main" /\ old_percentage = 0
    /\ length = 1
    /\ enable_extra_audio \in BOOLEAN
    /\ background_audio_volume \in {0, 1}
    /\ pbar = [v \in Variants |-> tqdm_new]
    /\ mon = [v \in Variants |-> MonIdle]
    /\ file = [v \in Variants |-> <<>>]
    /\ callbacks = [v \in Variants |-> <<>>]
    /\ encoder = [v \in Variants |-> "none"]
    /\ encodes = [v \in Variants |-> 0]
    /\ returned = "" /\ saved = FALSE
    /\ rendered_audio = [v \in Variants |-> NoAudio] /\ cleaned = FALSE
    /\ tpc = "prepare"
    /\ \E m \in Modes :
           /\ storymode = m.storymode
           /\ storymodemethod = m.storymodemethod
           /\ storymodemethod_cap_cut = m.storymodemethod_cap_cut
    /\ number_of_clips \in 0..MaxClips
    /\ durs = [k \in 0..(MaxClips + 1) |-> 1]
    /\ audio_clips = <<>> /\ audio_clips_durations = <<>> /\ windows = <<>>
    /\ \E m \in MissingSets(MaxMissing) : assets = InputAssets \ m

\* make_final_video, lines 226 to 244: file names, result folders, thumbnail,
\* credit text and scale, then the call of render_video for the main video
StartRendering ==
    /\ tpc = "built"
    /\ pc = "building"
    /\ tpc' = "rendering"
    /\ pc' = "render_main"
    /\ UNCHANGED <<storymode, storymodemethod, storymodemethod_cap_cut,
                   number_of_clips, durs, audio_clips, audio_clips_durations,
                   windows, assets>>
    /\ UNCHANGED <<settingVars, cur, old_percentage, encoder, encodes,
                   returned, saved, rendered_audio, cleaned, pbar, mon, file,
                   callbacks>>
    /\ UNCHANGED rotatorVars

BuildNext ==
    \/ PrepareBackground
    \/ GatherAudioClips
    \/ ConcatenateAudioClips
    \/ CreateTitleImage
    \/ GetAudioClipsDurations
    \/ OverlayImagesOnBackground
    \/ StartRendering
    \/ RenderVideoEnter("main")
    \/ EncoderSpawn("main")
    \/ EncoderAppend("main")
    \/ MonitorStep("main")

BuildSpec == BuildInit /\ [][BuildNext]_vars

\* the files the encoder of render_video(v) is told to read: the cropped
\* background, the image of every overlay and the inputs of the audio stream
GraphInputs(v) ==
    {BackgroundNoAudio}
        \cup {windows[i].image : i \in 1..Len(windows)}
        \cup rendered_audio[v].files

(***************************************************************************)
(* Properties of the timeline (TimelineSpec).                              *)
(***************************************************************************)
Built == tpc = "built"

WindowLength(w) == w.end - w.start

\* C1: the overlay windows of a job start at 0, each ends where the next
\* starts, and the last ends at the sum of all the durations that
\* get_audio_clips_durations returned, in every layout mode.
C1_WindowsCoverAllDurations ==
    Built =>
        /\ windows # <<>>
        /\ windows[1].start = 0
        /\ \A i \in 1..(Len(windows) - 1) : windows[i].end = windows[i + 1].start
        /\ windows[Len(windows)].end = Sum(audio_clips_durations)

\* C2: the number of overlay windows equals the number of audio segments
\* gathered for the job, title included.
C2_OneWindowPerSegment ==
    Built =>
        /\ Len(windows) = Len(audio_clips)
        /\ Len(windows) = Len(audio_clips_durations)

\* the image that belongs to an audio clip: title.png to title.mp3,
\* story_content.png to postaudio.mp3, img<k>.png (trs<k>.png in the blank
\* variant) to postaudio-<k>.mp3, comment_<k>.png to <k>.mp3
PairedImage(a) ==
    IF a[2] = "title" THEN Png("title", 0)
    ELSE IF a[2] = "postaudio" THEN Png("story_content", 0)
    ELSE IF a[2] = "postaudio-"
         THEN Png(IF storymodemethod_cap_cut THEN "trs" ELSE "img", a[3])
    ELSE Png("comment_", a[3])

\* C3: window i is sized by the duration of the i-th clip of the
\* concatenation list and shows the image paired with that clip.
C3_WindowOrderIsAudioOrder ==
    Built =>
        \A i \in 1..Len(windows) :
            /\ i <= Len(audio_clips)
            /\ WindowLength(windows[i]) = probe(audio_clips[i])
            /\ windows[i].image = PairedImage(audio_clips[i])

\* C3 witness: a flat job of three windows whose neighbouring clips differ in
\* duration, so that any other order would show
C3_Witness ==
    /\ Built
    /\ ~storymode
    /\ Len(windows) = 3
    /\ probe(audio_clips[1]) # probe(audio_clips[2])
    /\ probe(audio_clips[2]) # probe(audio_clips[3])

Horizon == 0..((MaxClips + 2) * MaxDur)

\* C4: an overlay is enabled only inside the half-open interval
\* [start, end) of its window, so at every playback time, boundaries
\* included, at most one overlay is enabled.
C4_AtMostOneOverlayEnabled ==
    Built =>
        \A t \in Horizon :
            /\ \A i \in 1..Len(windows) :
                   OverlayEnabled(windows[i], t) =>
                       (windows[i].start <= t /\ t < windows[i].end)
            /\ Cardinality({i \in 1..Len(windows) :
                               OverlayEnabled(windows[i], t)}) <= 1

\* C12: the main encoder is spawned only with a graph all of whose input
\* files exist; a job with a missing asset stops before render_video.
C12_NoEncoderOnMissingAsset ==
    encoder["main"] # "none" => GraphInputs("main") \subseteq assets

\* C13: with no clips in flat comments mode gather_audio_clips returns no
\* segment list: no title-only timeline is built and no encoder is started.
C13_EmptyFlatJobRejected ==
    (number_of_clips = 0 /\ storymode = FALSE) =>
        /\ audio_clips = <<>>
        /\ windows = <<>>
        /\ encoder["main"] = "none"

(***************************************************************************)
(* Properties of the monitor (MonitorSpec, FairMonitorSpec).               *)
(***************************************************************************)
\* the line reports the out_time_ms field
ReportsOutTimeMs(line) == line.key = "out_time_ms"

\* value of the last out_time_ms line of a batch, None if there is none
RECURSIVE LastOutTimeMs(_)
LastOutTimeMs(lines) ==
    IF lines = <<>> THEN None
    ELSE IF ReportsOutTimeMs(lines[Len(lines)])
         THEN lines[Len(lines)].val
         ELSE LastOutTimeMs(SubSeq(lines, 1, Len(lines) - 1))

JustPolled(v) == mon[v].pc \in {"callback", "sleep"} /\ mon[v].batch # <<>>

\* C5: a poll that read several new lines returns the value of the last
\* out_time_ms line among them.
C5_PollReturnsLastOutTime ==
    (JustPolled("main") /\ isnumeric(LastOutTimeMs(mon["main"].batch))) =>
        mon["main"].latest = LastOutTimeMs(mon["main"].batch)

OutTimeLines(v) == SelectSeq(file[v], ReportsOutTimeMs)

Increasing(lines) ==
    \A i, j \in 1..Len(lines) : i < j => lines[i].val < lines[j].val

\* a <= b for fractions whose denominators are multiples of MICRO
FractionLeq(a, b) ==
    a.num * (b.den \div MICRO) <= b.num * (a.den \div MICRO)

NonDecreasing(fs) ==
    \A i, j \in 1..Len(fs) : i < j => FractionLeq(fs[i], fs[j])

\* C6: when the out_time_ms values on the channel are increasing, the
\* fractions passed to the callback never decrease, whatever the
\* interleaving of appends and polls; and with no out_time_ms line on the
\* channel the callback has not been invoked.
C6_CallbackFractionsMonotone ==
    /\ Increasing(OutTimeLines("main")) => NonDecreasing(callbacks["main"])
    /\ OutTimeLines("main") = <<>> => callbacks["main"] = <<>>

\* C6 witness: two different fractions were reported from an increasing
\* channel that also holds a line without the field
C6_Witness ==
    /\ Increasing(OutTimeLines("main"))
    /\ Len(callbacks["main"]) = 2
    /\ callbacks["main"][1] # callbacks["main"][2]
    /\ Len(file["main"]) > Len(OutTimeLines("main"))

\* C7: after stop() the loop polls at most once more and the thread ends;
\* a repeated stop() changes nothing but the count of calls.
C7_StopEndsPolling ==
    /\ [](mon["main"].polls_after_stop <= 1)
    /\ [][(mon["main"].stop_calls > 0
             /\ mon'["main"].stop_calls > mon["main"].stop_calls)
          => mon'["main"] = [mon["main"] EXCEPT !.stop_calls = @ + 1]]_vars
    /\ (mon["main"].stop_calls > 0) ~> (mon["main"].pc = "done")

\* C7 witness: stopped twice with nothing ever written, one poll made after
\* the first stop, thread ended
C7_Witness ==
    /\ mon["main"].pc = "done"
    /\ mon["main"].stop_calls = 2
    /\ mon["main"].polls_after_stop = 1
    /\ file["main"] = <<>>

(***************************************************************************)
(* Properties of the render phase (Spec).                                  *)
(***************************************************************************)
\* C8: while an encoder started by render_video runs, exactly one monitor
\* thread is alive, and the main render's thread has ended before the
\* OnlyTTS encoder starts.
C8_OneMonitorPerEncode ==
    /\ \A v \in Variants :
           encoder[v] = "running" =>
               Cardinality({u \in Variants : Alive(u)}) = 1
    /\ encoder["tts"] # "none" => mon["main"].pc = "done"

\* C9: once render_video has returned, its progress bar stands at 100%,
\* and stays there.
C9_ProgressEndsAtFull ==
    \A v \in Variants : pbar[v].disable => pbar[v].n = FULL * Scale

\* C10: after the main encoder failed, the OnlyTTS encoder is never started,
\* the main encode is not repeated, and no path is returned or saved.
C10_MainFailureEndsJob ==
    encoder["main"] = "failed" =>
        /\ encoder["tts"] = "none"
        /\ encodes["main"] = 1
        /\ encodes["tts"] = 0
        /\ returned = ""
        /\ ~saved
        /\ pc \in {"encoding", "aborted"}

\* C10 witness: the main encoder failed in a job that wanted the OnlyTTS
\* variant, and make_final_video was abandoned
C10_Witness ==
    /\ encoder["main"] = "failed"
    /\ allow_only_tts_folder
    /\ pc = "aborted"
    /\ mon["main"].pc = "done"

\* the stream contains no mix node
Unmixed(a) == a.node = "input" /\ a.files = {FinalAudio}

MainReturned == encoder["main"] = "ok" /\ pbar["main"].disable

\* C11: at volume 0 the main render gets the unmixed narration and no
\* OnlyTTS render happens, so render_video runs once; an OnlyTTS render
\* happens only with extra audio enabled and a non-zero volume, and only
\* after the main render_video has returned.
C11_OneRenderAtVolumeZero ==
    /\ background_audio_volume = 0 =>
           /\ encodes["tts"] = 0
           /\ encodes["main"] <= 1
           /\ encodes["main"] = 1 => Unmixed(rendered_audio["main"])
           /\ pc = "done" => encodes["main"] = 1
    /\ encodes["tts"] > 0 =>
           /\ enable_extra_audio
           /\ background_audio_volume # 0
           /\ MainReturned
           /\ encodes["tts"] = 1

\* C11 witness: a finished job with extra audio enabled at volume 0, which
\* rendered once with the plain narration
C11_Witness ==
    /\ pc = "done"
    /\ enable_extra_audio
    /\ background_audio_volume = 0
    /\ encodes["main"] = 1 /\ encodes["tts"] = 0
    /\ Unmixed(rendered_audio["main"])

\* C14: every execution of make_final_video that has ended, by returning or
\* through a failed encode, has run cleanup.
C14_CleanupAlwaysRuns ==
    pc \in {"done", "aborted"} => cleaned

(***************************************************************************)
(* Properties of the key rotator (RotatorSpec).                            *)
(***************************************************************************)
\* C15: no persisted use count exceeds 10, and the key a rotation has just
\* written to the config is not retired and has fewer than 10 uses.
C15_UsesBoundedAndFreshKey ==
    /\ \A k \in KeySet : api_keys[k].uses <= USE_LIMIT
    /\ last_run = "rotated" =>
           /\ config_key \in KeySet
           /\ api_keys[config_key].retired_date = None
           /\ api_keys[config_key].uses < USE_LIMIT

\* C15 witness: the 20th run retired the second key at 10 uses and wrote the
\* reactivated first key
C15_Witness ==
    /\ last_run = "rotated"
    /\ execution_count = 2 * ROTATE_EVERY
    /\ config_key = Keys[1]
    /\ api_keys[Keys[2]].uses = USE_LIMIT
    /\ api_keys[Keys[2]].retired_date # None

\* C16: a run that fails leaves the key storage, the execution count and
\* the configured key as they were, and a run whose execution count is not
\* a multiple of 10 leaves the configured key as it was.
C16_FailedRunChangesNothing ==
    [][/\ last_run' = "failed" =>
              UNCHANGED <<api_keys, execution_count, config_key>>
       /\ (execution_count + 1) % ROTATE_EVERY # 0 =>
              config_key' = config_key]_vars

\* C16 witness: the 20th run found both keys retired and failed, the files
\* still show 19 runs and 9 uses of the configured key
C16_Witness ==
    /\ last_run = "failed"
    /\ execution_count = 2 * ROTATE_EVERY - 1
    /\ config_key \in KeySet
    /\ api_keys[config_key].uses = USE_LIMIT - 1
    /\ \E k \in KeySet : api_keys[k].retired_date # None

====
